---- MODULE Spec2Model ----
(***************************************************************************)
(* Meeting Summarizer: the /process-transcript endpoint of main.py, the    *)
(* background run it schedules, the input validation of                    *)
(* SummaryProcessor.process_transcript and the summary_processes job        *)
(* record (one row per meeting_id) they write.                              *)
(*                                                                         *)
(* db.create_process, db.update_process and db.save_transcript are called  *)
(* by main.py but their bodies are not part of the sources (the           *)
(* DatabaseManager class ends at the comment "Other async methods like     *)
(* create_process, ..."); they are modelled from the store contract of     *)
(* spec.md sections 4.4 and 4.5 over the table schema that the sources do  *)
(* contain.                                                                *)
(* TranscriptProcessor.process_transcript (chunking + model calls) is an   *)
(* external awaited call: its result is a nondeterministic outcome.        *)
(***************************************************************************)
EXTENDS Integers, Sequences, FiniteSets, TLC

VARIABLES
    store,    \* summary_processes table: meeting_id -> row, or NoRecord
    saved,    \* transcript_chunks table: meeting_id -> Some(transcript), or None
    tasks,    \* background tasks in submission order (BackgroundTasks.add_task)
    probe     \* one direct call of SummaryProcessor.process_transcript (SpecValidate)

vars == <<store, saved, tasks, probe>>

----------------------------------------------------------------------------
(* Bounds of the model *)

MaxSubmits == 2
MaxChunks == 1
MaxChunkSize == 2
MaxTextLen == 2

----------------------------------------------------------------------------
(* Values *)

\* A nullable value: None is the empty tuple, a value v is <<v>>.
None == <<>>
Some(v) == <<v>>

\* No status written yet (a task that has not finished).
Null == "<None>"

Meetings == {"m1", "m2"}

Terminal == {"completed", "failed"}

\* Characters of a transcript: one whitespace, one non-whitespace.
Chars == {" ", "a"}

IsSpace(c) == c = " "

RECURSIVE lstrip(_)
lstrip(s) ==
    IF s = <<>> THEN <<>>
    ELSE IF IsSpace(Head(s)) THEN lstrip(Tail(s)) ELSE s

RECURSIVE rstrip(_)
rstrip(s) ==
    IF s = <<>> THEN <<>>
    ELSE IF IsSpace(s[Len(s)]) THEN rstrip(SubSeq(s, 1, Len(s) - 1)) ELSE s

\* str.strip(): whitespace removed from both ends
strip(s) == rstrip(lstrip(s))

\* str(e) of an exception built from its args: Exception() -> "", Exception(x) -> x
str(e) == IF e = <<>> THEN "" ELSE e[1]

\* json.dumps(all_json_data): the serialised text of the data
json_dumps(d) == <<"json">> \o d

\* truth value of a Python list: non-empty
Truthy(d) == Len(d) > 0

----------------------------------------------------------------------------
(* SummaryProcessor.process_transcript up to the awaited call:             *)
(* raises ValueError, or hands (chunk_size, overlap) to the chunking step. *)

Raise(msg) == [raised |-> TRUE, exc |-> <<msg>>, chunk_size |-> 0, overlap |-> 0]

Call(cs, ov) == [raised |-> FALSE, exc |-> <<>>, chunk_size |-> cs, overlap |-> ov]

\* Faulty variant: the clamp tests overlap > chunk_size
process_transcript_strict_gt(text, chunk_size, overlap) ==
    IF strip(text) = <<>> THEN Raise("Transcript text is empty")
    ELSE IF chunk_size <= 0 \/ overlap < 0 THEN Raise("Invalid chunk_size or overlap")
    ELSE IF overlap > chunk_size THEN Call(chunk_size, chunk_size - 1)
    ELSE Call(chunk_size, overlap)

process_transcript(text, chunk_size, overlap) ==
    IF strip(text) = <<>> THEN Raise("Transcript text is empty")
    ELSE IF chunk_size <= 0 \/ overlap < 0 THEN Raise("Invalid chunk_size or overlap")
    ELSE IF overlap >= chunk_size THEN Call(chunk_size, chunk_size - 1)
    ELSE Call(chunk_size, overlap)

----------------------------------------------------------------------------
(* Job store (summary_processes, PRIMARY KEY meeting_id) *)

\* A fresh row: status pending, nullable columns NULL, chunk_count DEFAULT 0.
NewRow == [status |-> "pending", error |-> None, result |-> None, chunk_count |-> 0]

\* No row for the meeting.
NoRecord == [status |-> "<no row>", error |-> None, result |-> None, chunk_count |-> 0]

\* create(meeting_id) -> job_id: the row of the meeting is (re)created in
\* pending; a re-submission overwrites the prior job state of the meeting.
create_process(st, meeting_id) == [st EXCEPT ![meeting_id] = NewRow]

\* The identifier create_process returns: the key of the row.
process_id_of(meeting_id) == meeting_id

\* update(job_id, status, fields...): sets status and the fields given
\* (fields is the record of the keyword arguments passed; a column not
\* named in it is left as it is); atomic, last writer wins.
update_process(st, process_id, status, fields) ==
    IF st[process_id] = NoRecord THEN st
    ELSE [st EXCEPT ![process_id] =
            [status |-> status,
             result |-> IF "result" \in DOMAIN fields THEN Some(fields.result) ELSE @.result,
             error |-> IF "error" \in DOMAIN fields THEN Some(fields.error) ELSE @.error,
             chunk_count |-> IF "chunk_count" \in DOMAIN fields
                             THEN fields.chunk_count ELSE @.chunk_count]]

\* save_transcript(meeting_id, text, model, model_name, chunk_size, overlap)
save_transcript(sv, meeting_id, transcript) == [sv EXCEPT ![meeting_id] = Some(transcript)]

----------------------------------------------------------------------------
(* The requests of the job-lifecycle specification: one representative of  *)
(* each outcome of the validation in process_transcript (SpecValidate runs *)
(* the validation itself over all small inputs).                           *)

Request(text, cs, ov) == [text |-> text, chunk_size |-> cs, overlap |-> ov]

Requests ==
    { Request(<<"a">>, 1, 2),       \* accepted, overlap >= chunk_size
      Request(<<>>, 2, 1),          \* empty text
      Request(<<" ">>, 2, 1),       \* whitespace-only text
      Request(<<"a">>, 0, 0),       \* chunk_size <= 0
      Request(<<"a">>, 2, -1) }     \* overlap < 0

\* What the awaited TranscriptProcessor.process_transcript can do: return
\* (num_chunks, all_json_data) or raise an exception.
Outcomes ==
    [kind : {"return"}, num_chunks : 0..MaxChunks, data : {<<>>, <<"summary">>}, exc : {<<>>}]
    \cup
    [kind : {"raise"}, num_chunks : {0}, data : {<<>>}, exc : {<<>>, <<"backend error">>}]

NoCall == [chunk_size |-> 0, overlap |-> 0]

\* No direct call of process_transcript is in progress (the lifecycle specification).
NoProbe == [pc |-> "none", text |-> <<>>, chunk_size |-> 0, overlap |-> 0, out |-> Call(0, 0)]

NewTask(pid, transcript) ==
    [process_id |-> pid, transcript |-> transcript, pc |-> "scheduled",
     called |-> FALSE, call |-> NoCall, returned |-> FALSE, num_chunks |-> 0,
     wrote |-> Null]

----------------------------------------------------------------------------
(* process_transcript_background: what the run writes *)

\* Faulty variant: a failed run is logged but its status is never written
on_exception_logged_only(st, process_id, e) == st

\* except Exception as e: update_process(process_id, status="failed", error=str(e))
on_exception(st, process_id, e) ==
    update_process(st, process_id, "failed", [error |-> str(e)])

\* Faulty variant: an empty result puts the job back to pending (to be retried)
on_result_requeue(st, process_id, all_json_data) ==
    IF Truthy(all_json_data)
    THEN update_process(st, process_id, "completed", [result |-> json_dumps(all_json_data)])
    ELSE update_process(st, process_id, "pending", [error |-> "No chunks processed"])

\* if all_json_data: completed with result, else: failed "No chunks processed"
on_result(st, process_id, all_json_data) ==
    IF Truthy(all_json_data)
    THEN update_process(st, process_id, "completed", [result |-> json_dumps(all_json_data)])
    ELSE update_process(st, process_id, "failed", [error |-> "No chunks processed"])

----------------------------------------------------------------------------
(* Actions *)

Init ==
    /\ store = [m \in Meetings |-> NoRecord]
    /\ saved = [m \in Meetings |-> None]
    /\ tasks = <<>>
    /\ probe = NoProbe

\* POST /process-transcript
process_transcript_api(meeting_id, transcript) ==
    /\ Len(tasks) < MaxSubmits
    /\ store' = create_process(store, meeting_id)
    /\ saved' = save_transcript(saved, meeting_id, transcript)
    /\ tasks' = Append(tasks, NewTask(process_id_of(meeting_id), transcript))
    /\ UNCHANGED probe

\* The background task starts: validation, then either the awaited call of
\* the transcript processor or the except branch.
BackgroundStart(i) ==
    /\ i \in 1..Len(tasks)
    /\ tasks[i].pc = "scheduled"
    /\ LET t == tasks[i]
           v == process_transcript(t.transcript.text, t.transcript.chunk_size,
                                   t.transcript.overlap)
       IN IF v.raised
          THEN /\ store' = on_exception(store, t.process_id, v.exc)
               /\ tasks' = [tasks EXCEPT ![i].pc = "done",
                                         ![i].wrote = store'[t.process_id].status]
          ELSE /\ tasks' = [tasks EXCEPT ![i].pc = "awaiting",
                                         ![i].called = TRUE,
                                         ![i].call = [chunk_size |-> v.chunk_size,
                                                      overlap |-> v.overlap]]
               /\ UNCHANGED store
    /\ UNCHANGED <<saved, probe>>

\* The awaited call ends with outcome o and the run writes the final state.
BackgroundFinish(i, o) ==
    /\ i \in 1..Len(tasks)
    /\ tasks[i].pc = "awaiting"
    /\ LET t == tasks[i]
       IN /\ store' = IF o.kind = "raise"
                      THEN on_exception(store, t.process_id, o.exc)
                      ELSE on_result(store, t.process_id, o.data)
          /\ tasks' = [tasks EXCEPT ![i].pc = "done",
                                    ![i].returned = (o.kind = "return"),
                                    ![i].num_chunks = o.num_chunks,
                                    ![i].wrote = store'[t.process_id].status]
    /\ UNCHANGED <<saved, probe>>

Next ==
    \/ \E m \in Meetings, r \in Requests : process_transcript_api(m, r)
    \/ \E i \in 1..MaxSubmits : BackgroundStart(i)
    \/ \E i \in 1..MaxSubmits, o \in Outcomes : BackgroundFinish(i, o)

Spec == Init /\ [][Next]_vars

\* Every scheduled background task is eventually run, and the awaited
\* processor call eventually returns or raises.
Fairness ==
    \A i \in 1..MaxSubmits :
        /\ WF_vars(BackgroundStart(i))
        /\ WF_vars(\E o \in Outcomes : BackgroundFinish(i, o))

FairSpec == Spec /\ Fairness

----------------------------------------------------------------------------
(* SummaryProcessor.process_transcript on its own, over all small inputs *)

RECURSIVE TextsUpTo(_)
TextsUpTo(n) ==
    IF n = 0 THEN {<<>>}
    ELSE LET shorter == TextsUpTo(n - 1)
         IN shorter \cup {Append(s, c) : s \in {x \in shorter : Len(x) = n - 1}, c \in Chars}

InitValidate ==
    /\ store = [m \in Meetings |-> NoRecord]
    /\ saved = [m \in Meetings |-> None]
    /\ tasks = <<>>
    /\ probe \in [pc : {"input"}, text : TextsUpTo(MaxTextLen),
                  chunk_size : -1..MaxChunkSize, overlap : -1..(MaxChunkSize + 2),
                  out : {Call(0, 0)}]

Validate ==
    /\ probe.pc = "input"
    /\ probe' = [probe EXCEPT !.pc = "validated",
                              !.out = process_transcript(probe.text, probe.chunk_size,
                                                         probe.overlap)]
    /\ UNCHANGED <<store, saved, tasks>>

NextValidate == Validate

SpecValidate == InitValidate /\ [][NextValidate]_vars

----------------------------------------------------------------------------
(* Properties *)

TaskIds == 1..Len(tasks)

HasRow(m) == store[m] # NoRecord

\* InvalidInput of the submit contract: empty or whitespace-only text, or
\* a non-positive chunk size.
InvalidInput(r) == strip(r.text) = <<>> \/ r.chunk_size <= 0

\* The tasks submitted for meeting m, and the most recently submitted one.
TasksOf(m) == {i \in TaskIds : tasks[i].process_id = process_id_of(m)}

LastTaskOf(m) == CHOOSE i \in TasksOf(m) : \A j \in TasksOf(m) : j <= i

\* C1: a submit with empty or whitespace-only text, or chunk_size <= 0,
\* creates no job record and schedules no run.
C1_NoJobForInvalidInput ==
    \A i \in TaskIds : ~InvalidInput(tasks[i].transcript)

C3_PendingThenProcessing ==
    [][\A m \in Meetings :
          (store[m].status = "pending" /\ store'[m].status # "pending")
              => store'[m].status = "processing"]_vars

\* C4: every job record that is pending is eventually completed or failed.
C4_EveryJobTerminates ==
    \A m \in Meetings :
        (store[m].status = "pending") ~> (store[m].status \in Terminal)

\* C4 witness: a run whose processor call raised has ended, and its job is failed.
C4_Witness ==
    \E i \in TaskIds :
        /\ tasks[i].pc = "done"
        /\ tasks[i].called /\ ~tasks[i].returned
        /\ store[tasks[i].process_id].status = "failed"

\* C5: result is populated only on completed, error only on failed.
C5_ResultErrorMatchStatus ==
    \A m \in Meetings :
        HasRow(m) =>
            /\ (store[m].result # None => store[m].status = "completed")
            /\ (store[m].error # None => store[m].status = "failed")

\* C6: a failed job has a non-empty error.
C6_FailedHasError ==
    \A m \in Meetings :
        store[m].status = "failed" =>
            (store[m].error # None /\ store[m].error # Some(""))

\* C7: the step that completes a job stores the num_chunks the processor
\* reported for that run as chunk_count.
C7_CompletedStoresChunkCount ==
    [][\A i \in TaskIds :
          (tasks[i].pc = "awaiting" /\ tasks'[i].pc = "done"
             /\ store'[tasks[i].process_id].status = "completed")
              => store'[tasks[i].process_id].chunk_count = tasks'[i].num_chunks]_vars

\* C8: for chunk_size > 0 and overlap >= chunk_size the call is accepted
\* (non-empty text) with effective overlap chunk_size - 1, and every
\* accepted call advances its window by chunk_size - overlap >= 1.
C8_ClampedOverlapAdvances ==
    probe.pc = "validated" =>
        /\ (strip(probe.text) # <<>> /\ probe.chunk_size > 0
              /\ probe.overlap >= probe.chunk_size)
              => (~probe.out.raised /\ probe.out.overlap = probe.chunk_size - 1
                    /\ probe.out.chunk_size = probe.chunk_size)
        /\ ~probe.out.raised => probe.out.chunk_size - probe.out.overlap >= 1

\* C8 witness: a call with overlap beyond chunk_size > 1 has been clamped.
C8_Witness ==
    /\ probe.pc = "validated"
    /\ probe.chunk_size > 1
    /\ probe.overlap > probe.chunk_size
    /\ ~probe.out.raised
    /\ probe.out.overlap = probe.chunk_size - 1

\* C9: a run with non-empty text, chunk_size > 0 and overlap < 0 hands
\* overlap 0 to the chunking step, as the same request with overlap 0 does.
C9_NegativeOverlapTreatedAsZero ==
    \A i \in TaskIds :
        LET r == tasks[i].transcript
        IN (tasks[i].pc # "scheduled" /\ strip(r.text) # <<>> /\ r.chunk_size > 0
              /\ r.overlap < 0)
            => /\ tasks[i].called
               /\ tasks[i].call =
                    [chunk_size |-> process_transcript(r.text, r.chunk_size, 0).chunk_size,
                     overlap |-> process_transcript(r.text, r.chunk_size, 0).overlap]

\* C10: once all runs of a meeting have ended, its record holds the
\* outcome of the most recently submitted run.
C10_LastSubmittedRunWins ==
    \A m \in Meetings :
        (TasksOf(m) # {} /\ \A i \in TasksOf(m) : tasks[i].pc = "done")
            => store[m].status = tasks[LastTaskOf(m)].wrote

====
